---- MODULE Spec2Model ----
(***************************************************************************)
(* Model of streamable_http_server/2-google-oauth-simple-server/server.py. *)
(*                                                                         *)
(* The module reads its configuration from the environment, derives the   *)
(* resource string, constructs the GoogleProvider and the FastMCP         *)
(* application, registers two tools and one custom route, and, when run   *)
(* as a script, either exits with status 1 (missing Google credentials)   *)
(* or hands control to mcp.run.                                           *)
(*                                                                         *)
(* Strings are sequences of one-character strings, so that concatenation  *)
(* and splitting are computed as Python computes them.                    *)
(*                                                                         *)
(* The OAuth endpoints (/register, /authorize, /auth/callback, /token) and *)
(* the bearer check on the MCP endpoint are implemented inside the        *)
(* imported fastmcp package; server.py only passes keyword arguments to   *)
(* it.  Nothing of their behaviour is written in this repository, so the  *)
(* model records what is passed and stops there.                          *)
(*                                                                         *)
(* Further down: the two tools of server2.py (SpecMath), the ADK chat      *)
(* client of cmd.py / client.py / agent.py (SpecChat, SpecClient) and      *)
(* result_to_json of the OAuth client (SpecJson).  Each program has its    *)
(* own variables and its own specification; the others stay idle.          *)
(***************************************************************************)
EXTENDS Integers, Sequences, FiniteSets, TLC

VARIABLES
    environ,      \* os.environ after dotenv.load_dotenv(): name -> string or None
    pc,           \* position of the script
    config,       \* the module-level configuration constants
    google_auth,  \* keyword arguments the GoogleProvider was built with
    mcp,          \* the FastMCP application: auth, tools, custom routes, run arguments
    exit_status,  \* <<status>> of the exit, or None
    served,       \* number of /healthz requests answered
    response,     \* body of the last /healthz response, or None
    \* server2.py, the stateless math server
    math_request, \* the tool call being handled: tool name and ArithmeticInput
    math_status,  \* "idle", "running", "returned" or "raised"
    math_returned, \* the ArithmeticResult returned, as a set of at most one record
    \* universal_client/1-google-adk-gemini-mcp-client: cmd.py, client.py, agent.py
    servers,        \* config["mcpServers"] in file order: type and what the server does
    cpc,            \* position of chat_loop (or of the caller of MCPClient)
    session_created,\* session_service.create_session has returned
    load_idx,       \* _load_toolsets: index of the server the loop is at
    toolsets,       \* _load_toolsets: the local list, as server indices
    agent,          \* AgentWrapper.agent: "None" or "LlmAgent"
    stored,         \* AgentWrapper._toolsets, as server indices
    runner,         \* MCPClient.runner: "None" or "Runner"
    turns,          \* number of inputs read by chat_loop
    pending,        \* an exception is propagating through the finally block
    shutdown_called,\* client.shutdown() has been called
    close_idx,      \* AgentWrapper.close: index into _toolsets the loop is at
    close_attempts, \* server index -> outcomes of the toolset.close() calls made
    exit_cause,     \* how chat_loop / init_session / close ended
    send_result,    \* outcome of the last send_task call
    \* universal_client/3-google-oauth-simple-client/client.py
    content,        \* result.content: a sequence of blocks, or Missing
    json_pc,        \* "idle", "ready" or "done"
    json_result     \* what result_to_json returned

mathVars == <<math_request, math_status, math_returned>>

adkVars == <<servers, cpc, session_created, load_idx, toolsets, agent, stored,
             runner, turns, pending, shutdown_called, close_idx,
             close_attempts, exit_cause, send_result>>

jsonVars == <<content, json_pc, json_result>>

vars == <<environ, pc, config, google_auth, mcp, exit_status, served, response,
          mathVars, adkVars, jsonVars>>

None == <<"None">>

\* The chat client is not running.
AdkIdle ==
    /\ servers = <<>>
    /\ cpc = "off"
    /\ session_created = FALSE
    /\ load_idx = 0
    /\ toolsets = <<>>
    /\ agent = "None"
    /\ stored = <<>>
    /\ runner = "None"
    /\ turns = 0
    /\ pending = FALSE
    /\ shutdown_called = FALSE
    /\ close_idx = 0
    /\ close_attempts = <<>>
    /\ exit_cause = "none"
    /\ send_result = "none"

\* result_to_json is not being called.
JsonIdle ==
    /\ content = <<>>
    /\ json_pc = "idle"
    /\ json_result = None

\* ---------------------------------------------------------------- bounds
MaxServed == 2
\* ArithmeticInput fields range over the whole numbers -MaxNum..MaxNum.
MaxNum == 3

\* ------------------------------------------------------- string helpers
\* str.split(sep) for a one-character separator: the fields between
\* separators, empty fields kept.
RECURSIVE SplitOn(_, _)
SplitOn(s, sep) ==
    IF \A i \in 1..Len(s) : s[i] # sep
    THEN <<s>>
    ELSE LET k == CHOOSE i \in 1..Len(s) :
                     s[i] = sep /\ \A j \in 1..(i - 1) : s[j] # sep
         IN  <<SubSeq(s, 1, k - 1)>> \o SplitOn(SubSeq(s, k + 1, Len(s)), sep)

\* os.environ.get(name, default)
EnvGet(env, name, default) ==
    IF env[name] = None THEN default ELSE env[name]

\* ------------------------------------------------- defaults (server.py)
DefaultBaseUrl == <<"h">>                  \* "http://localhost:8005"
DefaultMcpPath == <<"/", "m">>             \* "/mcp"
DefaultRedirectPath == <<"/", "c">>        \* "/auth/callback"
DefaultAllowedRedirects == <<"l", ";", "i">> \* "http://localhost:*;http://127.0.0.1:*"
Empty == <<>>                              \* ""

\* Values the environment may give each variable.
EnvNames == {"RS_BASE_URL", "MCP_PATH", "GOOGLE_CLIENT_ID",
             "GOOGLE_CLIENT_SECRET", "ALLOWED_CLIENT_REDIRECT_URIS"}

EnvValues(name) ==
    CASE name = "RS_BASE_URL" -> {None, <<"h", "/">>}
      [] name = "MCP_PATH" -> {None, <<"/", "m", "/">>}
      [] name = "GOOGLE_CLIENT_ID" -> {None, Empty, <<"g">>}
      [] name = "GOOGLE_CLIENT_SECRET" -> {None, Empty, <<"s">>}
      [] name = "ALLOWED_CLIENT_REDIRECT_URIS" -> {None, <<"l">>, <<"l", ";">>}

\* ---------------------------------------------------- module-level code
\* server.py lines 83-131: the configuration constants.
LoadedConfig(env) ==
    LET base == EnvGet(env, "RS_BASE_URL", DefaultBaseUrl)
        path == EnvGet(env, "MCP_PATH", DefaultMcpPath)
    IN  [BASE_URL |-> base,
         MCP_PATH |-> path,
         GOOGLE_CLIENT_ID |-> EnvGet(env, "GOOGLE_CLIENT_ID", Empty),
         GOOGLE_CLIENT_SECRET |-> EnvGet(env, "GOOGLE_CLIENT_SECRET", Empty),
         REDIRECT_PATH |-> DefaultRedirectPath,
         ALLOWED_CLIENT_REDIRECTS |->
             SplitOn(EnvGet(env, "ALLOWED_CLIENT_REDIRECT_URIS",
                            DefaultAllowedRedirects), ";"),
         RESOURCE |-> base \o path]

\* No tool call has been received yet.
NoRequest == [tool |-> "none", a |-> 0, b |-> 0]

NoMcp == [auth |-> None, tools |-> {}, routes |-> {}, run_path |-> None]

Init ==
    /\ environ \in {e \in [EnvNames -> UNION {EnvValues(n) : n \in EnvNames}] :
                        \A n \in EnvNames : e[n] \in EnvValues(n)}
    /\ pc = "config"
    /\ config = None
    /\ google_auth = None
    /\ mcp = NoMcp
    /\ exit_status = None
    /\ served = 0
    /\ response = None
    /\ math_request = NoRequest
    /\ math_status = "idle"
    /\ math_returned = {}
    /\ AdkIdle
    /\ JsonIdle

\* Lines 83-131.
LoadConfig ==
    /\ pc = "config"
    /\ config' = LoadedConfig(environ)
    /\ pc' = "provider"
    /\ UNCHANGED <<environ, google_auth, mcp, exit_status, served, response, mathVars, adkVars, jsonVars>>

\* Lines 146-155: GoogleProvider(...).  The constructor is library code: it
\* either returns a provider holding the arguments or raises, which ends the
\* script with a traceback (status 1).
BuildProvider ==
    /\ pc = "provider"
    /\ \/ /\ google_auth' = [client_id |-> config.GOOGLE_CLIENT_ID,
                             client_secret |-> config.GOOGLE_CLIENT_SECRET,
                             base_url |-> config.BASE_URL,
                             redirect_path |-> config.REDIRECT_PATH,
                             allowed_client_redirect_uris |->
                                 config.ALLOWED_CLIENT_REDIRECTS]
          /\ pc' = "app"
          /\ UNCHANGED exit_status
       \/ /\ pc' = "exited"
          /\ exit_status' = <<"1">>
          /\ UNCHANGED google_auth
    /\ UNCHANGED <<environ, config, mcp, served, response, mathVars, adkVars, jsonVars>>

\* Lines 170-176: FastMCP(name=..., instructions=..., auth=google_auth).
BuildApp ==
    /\ pc = "app"
    /\ mcp' = [mcp EXCEPT !.auth = google_auth]
    /\ pc' = "tools"
    /\ UNCHANGED <<environ, config, google_auth, exit_status, served, response, mathVars, adkVars, jsonVars>>

\* Lines 185-248: the decorators register get_time, get_user_info and the
\* /healthz custom route on the application.
RegisterHandlers ==
    /\ pc = "tools"
    /\ mcp' = [mcp EXCEPT !.tools = {"get_time", "get_user_info"},
                          !.routes = {"/healthz"}]
    /\ pc' = "main"
    /\ UNCHANGED <<environ, config, google_auth, exit_status, served, response, mathVars, adkVars, jsonVars>>

\* The entry point with the credential guard written with "and": it lets the
\* server start when only one of the two credentials is missing.
Main_AndGuard ==
    /\ pc = "main"
    /\ IF config.GOOGLE_CLIENT_ID = Empty /\ config.GOOGLE_CLIENT_SECRET = Empty
       THEN /\ pc' = "exited"
            /\ exit_status' = <<"1">>
            /\ UNCHANGED mcp
       ELSE /\ pc' = "serving"
            /\ mcp' = [mcp EXCEPT !.run_path = config.MCP_PATH]
            /\ UNCHANGED exit_status
    /\ UNCHANGED <<environ, config, google_auth, served, response, mathVars, adkVars, jsonVars>>

\* Lines 255-287: the entry point.
Main ==
    /\ pc = "main"
    /\ IF config.GOOGLE_CLIENT_ID = Empty \/ config.GOOGLE_CLIENT_SECRET = Empty
       THEN /\ pc' = "exited"
            /\ exit_status' = <<"1">>
            /\ UNCHANGED mcp
       ELSE /\ pc' = "serving"
            /\ mcp' = [mcp EXCEPT !.run_path = config.MCP_PATH]
            /\ UNCHANGED exit_status
    /\ UNCHANGED <<environ, config, google_auth, served, response, mathVars, adkVars, jsonVars>>

\* Lines 236-248: GET /healthz.
healthz ==
    /\ pc = "serving"
    /\ served < MaxServed
    /\ response' = [status |-> "ok",
                    base_url |-> config.BASE_URL,
                    mcp_path |-> config.MCP_PATH,
                    resource |-> config.RESOURCE]
    /\ served' = served + 1
    /\ UNCHANGED <<environ, pc, config, google_auth, mcp, exit_status, mathVars, adkVars, jsonVars>>

Next ==
    \/ LoadConfig
    \/ BuildProvider
    \/ BuildApp
    \/ RegisterHandlers
    \/ Main
    \/ healthz

Spec == Init /\ [][Next]_vars

\* ------------------------------------------------------------ type check
TypeOK ==
    /\ pc \in {"config", "provider", "app", "tools", "main", "serving", "exited"}
    /\ exit_status \in {None, <<"1">>}
    /\ served \in 0..MaxServed

\* ======================================================================
\* streamable_http_server/1-stateless-streamable/server2.py
\* ======================================================================
serverVars == <<environ, pc, config, google_auth, mcp, exit_status, served,
                response>>

Nums == (0 - MaxNum)..MaxNum

Abs(n) == IF n < 0 THEN 0 - n ELSE n

RECURSIVE Gcd(_, _)
Gcd(m, n) == IF n = 0 THEN m ELSE Gcd(n, m % n)

\* params.a / params.b for b # 0: the quotient as a fraction <<n, d>> in
\* lowest terms with d > 0.  A whole number k is <<k, 1>>.
TrueDiv(a, b) ==
    LET g == Gcd(Abs(a), Abs(b))
        sign == IF b < 0 THEN 0 - 1 ELSE 1
    IN  <<sign * (a \div g), sign * (b \div g)>>

\* a // b: the quotient rounded down to a whole number.
FloorDiv(a, b) ==
    IF b < 0 THEN <<(0 - a) \div (0 - b), 1>> ELSE <<a \div b, 1>>

\* f"{params.a} {op} {params.b}"
Expression(a, op, b) == <<a, op, b>>

\* The math server alone: the OAuth server's variables stay as constructed.
InitMath ==
    /\ environ = [n \in EnvNames |-> None]
    /\ pc = "config"
    /\ config = None
    /\ google_auth = None
    /\ mcp = NoMcp
    /\ exit_status = None
    /\ served = 0
    /\ response = None
    /\ math_request = NoRequest
    /\ math_status = "idle"
    /\ math_returned = {}
    /\ AdkIdle
    /\ JsonIdle

\* The transport hands a validated tools/call request to the server.  The
\* server is stateless: nothing of an earlier call is kept.
ReceiveCall ==
    /\ math_status # "running"
    /\ \E t \in {"multiply_numbers", "divide_numbers"}, a \in Nums, b \in Nums :
           math_request' = [tool |-> t, a |-> a, b |-> b]
    /\ math_status' = "running"
    /\ math_returned' = {}
    /\ UNCHANGED <<serverVars, adkVars, jsonVars>>

\* Lines 80-86.
multiply_numbers ==
    /\ math_status = "running"
    /\ math_request.tool = "multiply_numbers"
    /\ math_returned' =
           {[result |-> <<math_request.a * math_request.b, 1>>,
             expression |-> Expression(math_request.a, "*", math_request.b)]}
    /\ math_status' = "returned"
    /\ UNCHANGED <<math_request, serverVars, adkVars, jsonVars>>

\* divide_numbers with "//" in place of "/".
divide_numbers_FloorDiv ==
    /\ math_status = "running"
    /\ math_request.tool = "divide_numbers"
    /\ IF math_request.b = 0
       THEN /\ math_status' = "raised"
            /\ math_returned' = {}
       ELSE /\ math_returned' =
                   {[result |-> FloorDiv(math_request.a, math_request.b),
                     expression |->
                         Expression(math_request.a, "/", math_request.b)]}
            /\ math_status' = "returned"
    /\ UNCHANGED <<math_request, serverVars, adkVars, jsonVars>>

\* Lines 89-97.
divide_numbers ==
    /\ math_status = "running"
    /\ math_request.tool = "divide_numbers"
    /\ IF math_request.b = 0
       THEN /\ math_status' = "raised"
            /\ math_returned' = {}
       ELSE /\ math_returned' =
                   {[result |-> TrueDiv(math_request.a, math_request.b),
                     expression |->
                         Expression(math_request.a, "/", math_request.b)]}
            /\ math_status' = "returned"
    /\ UNCHANGED <<math_request, serverVars, adkVars, jsonVars>>

NextMath ==
    \/ ReceiveCall
    \/ multiply_numbers
    \/ divide_numbers

SpecMath == InitMath /\ [][NextMath]_vars

\* ------------------------------------------------------------------ C14
MathDone == math_status \in {"returned", "raised"}

\* C14: divide_numbers raises and returns no result whenever b = 0, and for
\* every other input returns exactly one result whose value times b equals a
\* (the quotient a / b) with the expression "a / b"; multiply_numbers always
\* returns exactly one result, a * b with the expression "a * b", and never
\* raises.
C14_DivideAndMultiply ==
    LET a == math_request.a
        b == math_request.b
    IN  /\ (MathDone /\ math_request.tool = "divide_numbers" /\ b = 0) =>
               /\ math_status = "raised"
               /\ math_returned = {}
        /\ (MathDone /\ math_request.tool = "divide_numbers" /\ b # 0) =>
               /\ math_status = "returned"
               /\ Cardinality(math_returned) = 1
               /\ \A r \in math_returned :
                      /\ r.result[2] > 0
                      /\ r.result[1] * b = a * r.result[2]
                      /\ r.expression = <<a, "/", b>>
        /\ (MathDone /\ math_request.tool = "multiply_numbers") =>
               /\ math_status = "returned"
               /\ Cardinality(math_returned) = 1
               /\ \A r \in math_returned :
                      /\ r.result = <<a * b, 1>>
                      /\ r.expression = <<a, "*", b>>

\* A division by zero was asked for and the tool raised.
C14_Witness ==
    /\ math_request.tool = "divide_numbers"
    /\ math_request.b = 0
    /\ math_request.a # 0
    /\ math_status = "raised"

\* ------------------------------------------------------------------ C12
\* A credential is missing when its variable is unset or set to "".
MissingCredential ==
    \/ environ["GOOGLE_CLIENT_ID"] \in {None, Empty}
    \/ environ["GOOGLE_CLIENT_SECRET"] \in {None, Empty}

\* C12: when GOOGLE_CLIENT_ID or GOOGLE_CLIENT_SECRET is missing or empty,
\* the server never reaches the serving state: mcp.run has not been called,
\* no request has been answered, and once the script has left the entry
\* point it has exited with status 1.
C12_MissingCredentialNeverServes ==
    MissingCredential =>
        /\ pc # "serving"
        /\ mcp.run_path = None
        /\ served = 0
        /\ response = None
        /\ (pc = "exited" => exit_status = <<"1">>)

\* The entry point itself (not the provider's constructor) ended the script:
\* the handlers were registered, a credential is missing, the exit is 1.
C12_Witness ==
    /\ MissingCredential
    /\ pc = "exited"
    /\ mcp.tools # {}
    /\ exit_status = <<"1">>

\* ======================================================================
\* universal_client/1-google-adk-gemini-mcp-client: agent.py, client.py, cmd.py
\* ======================================================================
MaxServers == 2
MaxTurns == 1

otherVars == <<serverVars, mathVars, jsonVars>>

\* A configured server: the "type" entry of its configuration ("http",
\* "stdio", some other string, or no entry) and what connecting to it and
\* listing its tools does: succeed, raise an Exception, or be cancelled
\* (asyncio.CancelledError, a BaseException, which cmd.py lines 102-106
\* expect to see).  A server without a usable type never gets that far.
ServerKinds ==
    [type : {"http", "stdio"}, fate : {"ok", "error", "cancel"}]
        \cup [type : {"other", "missing"}, fate : {"error"}]

RECURSIVE SeqsUpTo(_, _)
SeqsUpTo(S, n) ==
    IF n = 0 THEN {<<>>}
    ELSE LET shorter == SeqsUpTo(S, n - 1)
         IN  shorter \cup {Append(q, x) : q \in shorter, x \in S}

\* cmd.py lines 59-64, client.py lines 40-64, agent.py lines 42-53: the
\* client has been constructed and init_session has not started.
InitChat ==
    /\ servers \in SeqsUpTo(ServerKinds, MaxServers)
    /\ cpc = "create_session"
    /\ session_created = FALSE
    /\ load_idx = 0
    /\ toolsets = <<>>
    /\ agent = "None"
    /\ stored = <<>>
    /\ runner = "None"
    /\ turns = 0
    /\ pending = FALSE
    /\ shutdown_called = FALSE
    /\ close_idx = 0
    /\ close_attempts = [i \in 1..Len(servers) |-> <<>>]
    /\ exit_cause = "none"
    /\ send_result = "none"
    /\ environ = [n \in EnvNames |-> None]
    /\ pc = "config"
    /\ config = None
    /\ google_auth = None
    /\ mcp = NoMcp
    /\ exit_status = None
    /\ served = 0
    /\ response = None
    /\ math_request = NoRequest
    /\ math_status = "idle"
    /\ math_returned = {}
    /\ JsonIdle

\* init_session with the Runner constructed first, before the agent is built.
CreateSession_RunnerFirst ==
    /\ cpc = "create_session"
    /\ \/ /\ session_created' = TRUE
          /\ runner' = "Runner"
          /\ cpc' = "read_config"
          /\ UNCHANGED exit_cause
       \/ /\ cpc' = "exited"
          /\ exit_cause' = "create_session"
          /\ UNCHANGED <<session_created, runner>>
    /\ UNCHANGED <<servers, load_idx, toolsets, agent, stored, turns,
                   pending, shutdown_called, close_idx, close_attempts,
                   send_result, otherVars>>

\* client.py lines 76-80: await session_service.create_session(...).  It
\* returns, or raises out of init_session, which cmd.py line 67 calls
\* outside its try block.
CreateSession ==
    /\ cpc = "create_session"
    /\ \/ /\ session_created' = TRUE
          /\ cpc' = "read_config"
          /\ UNCHANGED exit_cause
       \/ /\ cpc' = "exited"
          /\ exit_cause' = "create_session"
          /\ UNCHANGED session_created
    /\ UNCHANGED <<servers, load_idx, toolsets, agent, stored, runner, turns,
                   pending, shutdown_called, close_idx, close_attempts,
                   send_result, otherVars>>

\* agent.py lines 90-91 and utilities.py lines 13-20: read_config_json()
\* returns the configuration or calls sys.exit(1).
ReadConfig ==
    /\ cpc = "read_config"
    /\ \/ /\ cpc' = "servers"
          /\ load_idx' = 1
          /\ toolsets' = <<>>
          /\ UNCHANGED exit_cause
       \/ /\ cpc' = "exited"
          /\ exit_cause' = "config"
          /\ UNCHANGED <<load_idx, toolsets>>
    /\ UNCHANGED <<servers, session_created, agent, stored, runner, turns,
                   pending, shutdown_called, close_idx, close_attempts,
                   send_result, otherVars>>

KnownType(s) == s.type \in {"http", "stdio"}

\* One iteration of the loop with the try/except removed: any failure of a
\* server ends the load.
LoadServer_NoCatch ==
    /\ cpc = "servers"
    /\ load_idx <= Len(servers)
    /\ LET s == servers[load_idx]
       IN  IF KnownType(s) /\ s.fate = "ok"
           THEN /\ toolsets' = Append(toolsets, load_idx)
                /\ load_idx' = load_idx + 1
                /\ UNCHANGED <<cpc, exit_cause>>
           ELSE /\ cpc' = "exited"
                /\ exit_cause' = "load"
                /\ UNCHANGED <<toolsets, load_idx>>
    /\ UNCHANGED <<servers, session_created, agent, stored, runner, turns,
                   pending, shutdown_called, close_idx, close_attempts,
                   send_result, otherVars>>

\* agent.py lines 93-124: one iteration of the loop over mcpServers.  A
\* type other than "http"/"stdio" raises ValueError (KeyError when the entry
\* is missing) inside the try; "except Exception" skips the server.  A
\* CancelledError is not an Exception and leaves _load_toolsets.
LoadServer ==
    /\ cpc = "servers"
    /\ load_idx <= Len(servers)
    /\ LET s == servers[load_idx]
       IN  IF KnownType(s) /\ s.fate = "ok"
           THEN /\ toolsets' = Append(toolsets, load_idx)
                /\ load_idx' = load_idx + 1
                /\ UNCHANGED <<cpc, exit_cause>>
           ELSE IF KnownType(s) /\ s.fate = "cancel"
           THEN /\ cpc' = "exited"
                /\ exit_cause' = "load"
                /\ UNCHANGED <<toolsets, load_idx>>
           ELSE /\ load_idx' = load_idx + 1
                /\ UNCHANGED <<toolsets, cpc, exit_cause>>
    /\ UNCHANGED <<servers, session_created, agent, stored, runner, turns,
                   pending, shutdown_called, close_idx, close_attempts,
                   send_result, otherVars>>

\* agent.py lines 126 and 65-75, client.py lines 83-90: the loop is over,
\* _load_toolsets returns, build constructs the LlmAgent and stores the
\* toolsets, init_session constructs the Runner.  Either constructor is
\* library code and may raise.
FinishInit ==
    /\ cpc = "servers"
    /\ load_idx > Len(servers)
    /\ \/ /\ agent' = "LlmAgent"
          /\ stored' = toolsets
          /\ runner' = "Runner"
          /\ cpc' = "prompt"
          /\ UNCHANGED exit_cause
       \/ /\ agent' = "LlmAgent"
          /\ stored' = toolsets
          /\ cpc' = "exited"
          /\ exit_cause' = "runner"
          /\ UNCHANGED runner
       \/ /\ cpc' = "exited"
          /\ exit_cause' = "agent"
          /\ UNCHANGED <<agent, stored, runner>>
    /\ UNCHANGED <<servers, session_created, load_idx, toolsets, turns,
                   pending, shutdown_called, close_idx, close_attempts,
                   send_result, otherVars>>

\* client.py lines 105-112: send_task dereferences self.runner.
SendTaskOutcome(r) == IF r = "None" THEN "AttributeError" ELSE "ok"

\* cmd.py lines 72-77: input() and the quit test.  The user quits, input()
\* raises (EOFError, KeyboardInterrupt), or a line of text is read.
Prompt ==
    /\ cpc = "prompt"
    /\ \/ /\ cpc' = "finally"
          /\ UNCHANGED <<pending, turns>>
       \/ /\ cpc' = "finally"
          /\ pending' = TRUE
          /\ UNCHANGED turns
       \/ /\ turns < MaxTurns
          /\ turns' = turns + 1
          /\ cpc' = "send"
          /\ UNCHANGED pending
    /\ UNCHANGED <<servers, session_created, load_idx, toolsets, agent, stored,
                   runner, shutdown_called, close_idx, close_attempts,
                   exit_cause, send_result, otherVars>>

\* cmd.py line 81: await client.send_task(user_input).
SendTask ==
    /\ cpc = "send"
    /\ send_result' = SendTaskOutcome(runner)
    /\ IF SendTaskOutcome(runner) = "ok"
       THEN cpc' = "stream" /\ UNCHANGED pending
       ELSE cpc' = "finally" /\ pending' = TRUE
    /\ UNCHANGED <<servers, session_created, load_idx, toolsets, agent, stored,
                   runner, turns, shutdown_called, close_idx, close_attempts,
                   exit_cause, otherVars>>

\* cmd.py lines 81-88: the events are consumed up to the final response (or
\* the end of the stream), or the stream or the printing raises.
Stream ==
    /\ cpc = "stream"
    /\ \/ cpc' = "prompt" /\ UNCHANGED pending
       \/ cpc' = "finally" /\ pending' = TRUE
    /\ UNCHANGED <<servers, session_created, load_idx, toolsets, agent, stored,
                   runner, turns, shutdown_called, close_idx, close_attempts,
                   exit_cause, send_result, otherVars>>

\* cmd.py lines 89-91, client.py line 121, agent.py line 134: the finally
\* block calls client.shutdown(), which calls agent_wrapper.close().
Shutdown ==
    /\ cpc = "finally"
    /\ shutdown_called' = TRUE
    /\ close_idx' = 1
    /\ cpc' = "closing"
    /\ UNCHANGED <<servers, session_created, load_idx, toolsets, agent, stored,
                   runner, turns, pending, close_attempts, exit_cause,
                   send_result, otherVars>>

\* One iteration of the loop of close with the try/except removed: an
\* Exception from toolset.close() leaves close.
CloseToolset_NoCatch ==
    /\ cpc = "closing"
    /\ close_idx <= Len(stored)
    /\ \E outcome \in {"ok", "error", "cancel"} :
           /\ close_attempts' =
                  [close_attempts EXCEPT ![stored[close_idx]] =
                       Append(@, outcome)]
           /\ IF outcome = "ok"
              THEN close_idx' = close_idx + 1 /\ UNCHANGED <<cpc, exit_cause>>
              ELSE /\ cpc' = "exited"
                   /\ exit_cause' = "close_raised"
                   /\ UNCHANGED close_idx
    /\ UNCHANGED <<servers, session_created, load_idx, toolsets, agent, stored,
                   runner, turns, pending, shutdown_called, send_result,
                   otherVars>>

\* agent.py lines 134-138: one iteration of the loop of close.  The await
\* returns, raises an Exception (printed, loop continues) or raises
\* CancelledError, which "except Exception" does not catch.
CloseToolset ==
    /\ cpc = "closing"
    /\ close_idx <= Len(stored)
    /\ \E outcome \in {"ok", "error", "cancel"} :
           /\ close_attempts' =
                  [close_attempts EXCEPT ![stored[close_idx]] =
                       Append(@, outcome)]
           /\ IF outcome = "cancel"
              THEN /\ cpc' = "exited"
                   /\ exit_cause' = "close_raised"
                   /\ UNCHANGED close_idx
              ELSE close_idx' = close_idx + 1 /\ UNCHANGED <<cpc, exit_cause>>
    /\ UNCHANGED <<servers, session_created, load_idx, toolsets, agent, stored,
                   runner, turns, pending, shutdown_called, send_result,
                   otherVars>>

\* agent.py line 141 and cmd.py line 91: await asyncio.sleep(1.0), then close,
\* shutdown and the finally block return and chat_loop ends: normally after
\* a quit, with the pending exception otherwise.  The sleep can be
\* cancelled.
CloseSleep ==
    /\ cpc = "closing"
    /\ close_idx > Len(stored)
    /\ cpc' = "exited"
    /\ \/ exit_cause' = IF pending THEN "loop_exception" ELSE "quit"
       \/ exit_cause' = "sleep_cancelled"
    /\ UNCHANGED <<servers, session_created, load_idx, toolsets, agent, stored,
                   runner, turns, pending, shutdown_called, close_idx,
                   close_attempts, send_result, otherVars>>

NextChat ==
    \/ CreateSession
    \/ ReadConfig
    \/ LoadServer
    \/ FinishInit
    \/ Prompt
    \/ SendTask
    \/ Stream
    \/ Shutdown
    \/ CloseToolset
    \/ CloseSleep

SpecChat == InitChat /\ [][NextChat]_vars

\* The client object driven by any caller: init_session runs once, and
\* send_task may be called at any moment, also while init_session is
\* suspended at an await.
ClientSendTask ==
    /\ cpc \in {"create_session", "read_config", "servers", "prompt"}
    /\ send_result' = SendTaskOutcome(runner)
    /\ UNCHANGED <<servers, cpc, session_created, load_idx, toolsets, agent,
                   stored, runner, turns, pending, shutdown_called, close_idx,
                   close_attempts, exit_cause, otherVars>>

NextClient ==
    \/ CreateSession
    \/ ReadConfig
    \/ LoadServer
    \/ FinishInit
    \/ ClientSendTask

SpecClient == InitChat /\ [][NextClient]_vars

\* ------------------------------------------------------------------ C21
\* The servers among the first n that have a usable type and whose
\* connection and tool listing succeed, in configuration order.
RECURSIVE LoadedUpTo(_, _)
LoadedUpTo(cfg, n) ==
    IF n = 0 THEN <<>>
    ELSE IF KnownType(cfg[n]) /\ cfg[n].fate = "ok"
         THEN Append(LoadedUpTo(cfg, n - 1), n)
         ELSE LoadedUpTo(cfg, n - 1)

ServerFails(srv) == ~KnownType(srv) \/ srv.fate = "error"

\* C21: _load_toolsets skips every server whose setup or tool listing raises
\* an error (an unknown or missing type included) and goes on with the next
\* one: at every point of the loop the list holds exactly the servers so far
\* that loaded successfully, in configuration order; the list it returns
\* holds exactly those of the whole configuration; and the load is never
\* ended by a failing server (only a cancellation ends it early).
C21_LoadSkipsFailingServers ==
    /\ cpc = "servers" => toolsets = LoadedUpTo(servers, load_idx - 1)
    /\ load_idx > Len(servers) => toolsets = LoadedUpTo(servers, Len(servers))
    /\ agent = "LlmAgent" => stored = LoadedUpTo(servers, Len(servers))
    /\ exit_cause = "load" =>
           /\ KnownType(servers[load_idx])
           /\ servers[load_idx].fate = "cancel"

\* C21 as stated: no server whose setup or tool listing raises ever ends the
\* load.
C21_NoServerAbortsLoad == exit_cause # "load"

\* The load finished although a server failed before one that loaded: the
\* returned list holds the later server only.
C21_Witness ==
    /\ load_idx > Len(servers)
    /\ \E i, j \in 1..Len(servers) :
           /\ i < j
           /\ ServerFails(servers[i])
           /\ toolsets = <<j>>

\* ------------------------------------------------------------------ C22
CloseReturned == exit_cause \in {"quit", "loop_exception"}

Attempts(i) == Len(close_attempts[i])

\* C22 as stated: close attempts every stored toolset exactly once, even
\* when closing an earlier one raises, and always completes without raising.
C22_CloseAlwaysCompletes ==
    (shutdown_called /\ cpc = "exited") =>
        /\ CloseReturned
        /\ \A k \in 1..Len(stored) : Attempts(stored[k]) = 1

\* C22 amended: close attempts each stored toolset at most once, in order,
\* and goes on past a toolset whose close raises an Exception; when close
\* returns, every stored toolset has been attempted exactly once; close is
\* left early only by a cancellation (a BaseException), raised by a
\* toolset's close or by the final sleep.
C22_CloseSkipsExceptions ==
    /\ \A i \in 1..Len(servers) : Attempts(i) <= 1
    /\ \A i \in 1..Len(servers) :
           Attempts(i) = 1 => \E k \in 1..Len(stored) : stored[k] = i
    /\ cpc = "closing" =>
           \A k \in 1..Len(stored) :
               Attempts(stored[k]) = (IF k < close_idx THEN 1 ELSE 0)
    /\ (CloseReturned \/ exit_cause = "sleep_cancelled") =>
           \A k \in 1..Len(stored) : Attempts(stored[k]) = 1
    /\ exit_cause = "close_raised" =>
           /\ close_idx <= Len(stored)
           /\ close_attempts[stored[close_idx]] = <<"cancel">>

\* close returned after the close of the first of two toolsets raised an
\* Exception: the second was still attempted.
C22_Witness ==
    /\ CloseReturned
    /\ Len(stored) = 2
    /\ close_attempts[stored[1]] = <<"error">>
    /\ Attempts(stored[2]) = 1

\* ------------------------------------------------------------------ C23
\* C23: on every exit of chat_loop by a quit, by an exception in the loop,
\* or by a failure of init_session after toolsets were connected,
\* client.shutdown() has been called and every connected toolset has had
\* its close called.
C23_ExitAlwaysCleansUp ==
    (/\ cpc = "exited"
     /\ \/ exit_cause \in {"quit", "loop_exception"}
        \/ Len(toolsets) > 0) =>
        /\ shutdown_called
        /\ \A k \in 1..Len(toolsets) : Attempts(toolsets[k]) >= 1

\* ------------------------------------------------------------------ C24
\* C24: the runner is set only after the session was created and the agent
\* built, in that order: whenever the agent is set the session exists,
\* whenever the runner is set the session exists and the agent is set, and
\* a send_task call has succeeded only with the runner set (a call made
\* before init_session completed failed).
C24_RunnerAfterSessionAndAgent ==
    /\ agent = "LlmAgent" => session_created
    /\ runner = "Runner" => (session_created /\ agent = "LlmAgent")
    /\ send_result = "ok" => runner = "Runner"
    /\ (send_result # "none" /\ runner = "None") => send_result = "AttributeError"

\* send_task was called while init_session was still loading servers and
\* failed; init_session has completed since.
C24_Witness ==
    /\ send_result = "AttributeError"
    /\ runner = "Runner"
    /\ session_created
    /\ agent = "LlmAgent"

\* ======================================================================
\* universal_client/3-google-oauth-simple-client/client.py
\* ======================================================================
MaxBlocks == 3

\* Texts of text blocks, as sequences of JSON lexemes.  None stands for a
\* text attribute that is None.
Texts == {<<>>, <<"x">>, <<"1">>, <<"null">>, <<"{", "}">>, <<"{">>,
          <<"1", "x">>, None}

\* json.loads(text): the value, or a raise (ok = FALSE).  A number, null and
\* the empty object are documents; the empty string, a bare word, an
\* unclosed brace, trailing garbage and a None argument raise.
JsonLoads(text) ==
    IF text = <<"1">> THEN [ok |-> TRUE, value |-> <<"int", "1">>]
    ELSE IF text = <<"null">> THEN [ok |-> TRUE, value |-> None]
    ELSE IF text = <<"{", "}">> THEN [ok |-> TRUE, value |-> <<"dict">>]
    ELSE [ok |-> FALSE, value |-> None]

\* Content blocks: type "none" is a block without a type attribute; data
\* None is a missing or None data attribute.
ContentBlocks ==
    [type : {"json"}, data : {None, <<"dict">>}, text : {<<>>}]
        \cup [type : {"text"}, data : {None}, text : Texts]
        \cup [type : {"image", "none"}, data : {None}, text : {<<>>}]

\* A CallToolResult: content is a list, is None, or is not there.
Results ==
    [kind : {"list"}, blocks : SeqsUpTo(ContentBlocks, MaxBlocks)]
        \cup [kind : {"none", "missing"}, blocks : {<<>>}]

\* Line 70: getattr(result, "content", []) or [].
ContentOf(result) == IF result.kind = "list" THEN result.blocks ELSE <<>>

\* The loop with a failed parse ending the scan instead of being skipped.
RECURSIVE ScanBlocks_StopAtBadText(_)
ScanBlocks_StopAtBadText(blocks) ==
    IF blocks = <<>> THEN None
    ELSE LET c == Head(blocks)
         IN  IF c.type = "json" THEN c.data
             ELSE IF c.type = "text"
                  THEN IF JsonLoads(c.text).ok
                       THEN JsonLoads(c.text).value
                       ELSE None
                  ELSE ScanBlocks_StopAtBadText(Tail(blocks))

\* Lines 70-81: the for loop over the blocks.
RECURSIVE ScanBlocks(_)
ScanBlocks(blocks) ==
    IF blocks = <<>> THEN None
    ELSE LET c == Head(blocks)
         IN  IF c.type = "json" THEN c.data
             ELSE IF c.type = "text" /\ JsonLoads(c.text).ok
                  THEN JsonLoads(c.text).value
                  ELSE ScanBlocks(Tail(blocks))

\* Lines 55-81.
result_to_json(result) == ScanBlocks(ContentOf(result))

InitJson ==
    /\ content \in Results
    /\ json_pc = "ready"
    /\ json_result = None
    /\ AdkIdle
    /\ environ = [n \in EnvNames |-> None]
    /\ pc = "config"
    /\ config = None
    /\ google_auth = None
    /\ mcp = NoMcp
    /\ exit_status = None
    /\ served = 0
    /\ response = None
    /\ math_request = NoRequest
    /\ math_status = "idle"
    /\ math_returned = {}

\* Lines 153 and 163: result_to_json(res).
CallResultToJson ==
    /\ json_pc = "ready"
    /\ json_result' = result_to_json(content)
    /\ json_pc' = "done"
    /\ UNCHANGED <<content, serverVars, mathVars, adkVars>>

NextJson == CallResultToJson

SpecJson == InitJson /\ [][NextJson]_vars

\* ------------------------------------------------------------------ C25
\* A block that makes result_to_json return: a json block, or a text block
\* whose text is valid JSON.
Decisive(c) == c.type = "json" \/ (c.type = "text" /\ JsonLoads(c.text).ok)

DecisiveIndexes == {i \in 1..Len(ContentOf(content)) : Decisive(ContentOf(content)[i])}

\* C25: result_to_json returns what the first json block or valid-JSON text
\* block, whichever comes first, holds (the data of a json block, the parsed
\* value of a text block); text blocks that do not parse and blocks of other
\* types are passed over; it returns None when the content is missing, None,
\* empty or has no such block.
C25_FirstJsonOrParsableText ==
    json_pc = "done" =>
        IF DecisiveIndexes = {}
        THEN json_result = None
        ELSE LET k == CHOOSE i \in DecisiveIndexes :
                          \A j \in DecisiveIndexes : i <= j
                 c == ContentOf(content)[k]
             IN  json_result = (IF c.type = "json" THEN c.data
                                ELSE JsonLoads(c.text).value)

\* A text block that does not parse was passed over and the value of a later
\* text block returned.
C25_Witness ==
    /\ json_pc = "done"
    /\ Len(ContentOf(content)) >= 2
    /\ ContentOf(content)[1].type = "text"
    /\ ~JsonLoads(ContentOf(content)[1].text).ok
    /\ ContentOf(content)[2].type = "text"
    /\ json_result = <<"int", "1">>
====
